---- MODULE Spec2Model ----
(***************************************************************************)
(* Model of DeviceID.generate() of device-id.js (src/cdn/gid.js): the      *)
(* probes, the safe() wrapper, the assembly of the canonical string and    *)
(* the SHA-256 step.                                                       *)
(*                                                                         *)
(* Strings are sequences of tokens, so that concatenation and join are     *)
(* sequence concatenation: 'nav:' + 'a' is <<"nav", ":", "a">>.            *)
(* JavaScript values that reach a string concatenation are tagged:         *)
(* [t |-> "str", s |-> tokens] or [t |-> "promise", ...].                  *)
(***************************************************************************)
EXTENDS Integers, Sequences, FiniteSets, TLC

\* number of generate() calls made in one behaviour
MaxCalls == 2

CallIds == 1..MaxCalls

(***************************************************************************)
(* The host environment: one outcome per capability a collector touches.   *)
(***************************************************************************)
DirectProbes == {"nav", "screen", "intl", "mediaQueries", "connection", "plugins"}
SafeProbes == {"fonts", "canvas", "webgl"}
UnusedProbes == {"mediaDevices", "permissions", "battery"}
GenerateProbes == DirectProbes \cup SafeProbes \cup {"audio"}
OptionKeys == {"fonts", "audio", "battery", "mediaDevices", "permissions"}
Caps == GenerateProbes \cup UnusedProbes \cup {"digest"}

OutcomesOf(cap) ==
    CASE cap \in DirectProbes -> {"a", "b", "throw"}
      [] cap = "canvas" -> {"a", "b", "throw"}
      [] cap = "fonts" -> {"a", "b", "throw", "throwAfterAppend"}
      [] cap = "webgl" -> {"a", "b", "throw", "absent"}
      [] cap = "audio" -> {"a", "b", "throw", "absent", "reject", "hang"}
      [] cap \in UnusedProbes -> {"a", "b", "absent", "reject"}
      [] cap = "digest" -> {"a", "fail"}

\* the unperturbed environment: every capability present and answering "a"
BaseEnv == [cap \in Caps |-> "a"]

EmptyStr == << >>
Str(s) == [t |-> "str", s |-> s]

(***************************************************************************)
(* Utility helpers                                                         *)
(***************************************************************************)
\* crypto.subtle.digest as a deterministic, injective function of its input
Digest(input) == <<"sha256(">> \o input \o <<")">>

\* the size of a SHA-256 digest in bytes, and the values of a Uint8Array element
DigestBytes == 32
ByteValues == 0 .. 255

\* the digits Number.prototype.toString uses
HexDigits == <<"0", "1", "2", "3", "4", "5", "6", "7", "8", "9", "a", "b", "c", "d", "e", "f">>

\* b.toString(16): the digits of b without leading zeros
RECURSIVE ToString16(_)
ToString16(b) ==
    IF b < 16 THEN <<HexDigits[b + 1]>>
    ELSE ToString16(b \div 16) \o <<HexDigits[(b % 16) + 1]>>

\* a rendering that leaves short strings as they are
PadStartNone(str, targetLength, padString) == str

\* str.padStart(targetLength, padString) for a one-character padString
RECURSIVE PadStart(_, _, _)
PadStart(str, targetLength, padString) ==
    IF Len(str) >= targetLength THEN str
    ELSE PadStart(<<padString>> \o str, targetLength, padString)

\* the callback of arr.map: b => b.toString(16).padStart(2, '0')
HexOfByte(b) == PadStart(ToString16(b), 2, "0")

\* strs.join('')
RECURSIVE JoinEmpty(_)
JoinEmpty(strs) == IF strs = << >> THEN << >> ELSE Head(strs) \o JoinEmpty(Tail(strs))

\* the digests the rendering is run on: constant arrays and ramps of bytes
MaxStride == 1
DigestArrays ==
    {[i \in 1 .. DigestBytes |-> (b + (i - 1) * k) % 256] : b \in ByteValues, k \in 0 .. MaxStride}

\* the promise returned by sha256Hex(input) when the primitive answers d
sha256Hex(input, d) ==
    IF d = "fail"
    THEN [t |-> "promise", state |-> "pending", fate |-> "reject", value |-> EmptyStr]
    ELSE [t |-> "promise", state |-> "pending", fate |-> "fulfill", value |-> Digest(input)]

\* sha256HexFromArrayBuffer inside getAudioFingerprint: value or throw
sha256HexFromArrayBuffer(samples, d) ==
    IF d = "fail" THEN [kind |-> "throw"] ELSE [kind |-> "value", v |-> <<"hex", samples>>]

\* v ?? fallback
Nullish(r, fallback) == IF r.kind = "null" THEN fallback ELSE r.v

\* what a function handed to safe() can do: return a value, return null or
\* undefined, throw, or return a promise that fulfils (with a value, null or
\* undefined) or rejects
FnValues == {EmptyStr, <<"a">>, <<"b">>}
FnNulls == {[kind |-> "null", which |-> w] : w \in {"null", "undefined"}}
FnSettled == {[kind |-> "value", v |-> v] : v \in FnValues} \cup FnNulls
FnOutcomes ==
    FnSettled
    \cup {[kind |-> "throw"]}
    \cup {[kind |-> "promise", fate |-> "fulfill", settled |-> x] : x \in FnSettled}
    \cup {[kind |-> "promise", fate |-> "reject"]}
Fallbacks == {EmptyStr, <<"fb">>}

\* safe without the .catch on the promise branch
safeNoCatch(r, fallback) ==
    CASE r.kind = "throw" ->
            [t |-> "promise", state |-> "fulfilled", fate |-> "fulfill", value |-> fallback]
      [] r.kind = "promise" ->
            [t |-> "promise", state |-> "pending", fate |-> r.fate,
             value |-> IF r.fate = "reject" THEN <<"Error">> ELSE Nullish(r.settled, fallback)]
      [] OTHER ->
            [t |-> "promise", state |-> "fulfilled", fate |-> "fulfill",
             value |-> Nullish(r, fallback)]

\* safe(fn, fallback), r being what calling fn does
safe(r, fallback) ==
    CASE r.kind = "throw" ->
            [t |-> "promise", state |-> "fulfilled", fate |-> "fulfill", value |-> fallback]
      [] r.kind = "promise" ->
            [t |-> "promise", state |-> "pending", fate |-> "fulfill",
             value |-> IF r.fate = "reject" THEN fallback ELSE Nullish(r.settled, fallback)]
      [] OTHER ->
            [t |-> "promise", state |-> "fulfilled", fate |-> "fulfill",
             value |-> Nullish(r, fallback)]

\* the text a host value is written as; "inj" is a value that itself holds
\* the record separator, a probe name and the field separator
HostText(o) == IF o = "inj" THEN <<"a", "||||", "screen", ":", "a">> ELSE <<o>>

\* a synchronous collector with a try/catch around its body: '' when the host throws
Returned(s) == [kind |-> "value", v |-> s]

collectStableNavigator(o) == IF o = "throw" THEN EmptyStr ELSE HostText(o)
collectStableScreen(o) == IF o = "throw" THEN EmptyStr ELSE HostText(o)
collectIntl(o) == IF o = "throw" THEN EmptyStr ELSE <<o>>
collectMediaQueries(o) == IF o = "throw" THEN EmptyStr ELSE <<o>>
getConnectionInfo(o) == IF o = "throw" THEN EmptyStr ELSE <<o>>
getPluginsAndMimes(o) == IF o = "throw" THEN EmptyStr ELSE <<o>>
\* "throw": the document gives no element to measure with; "throwAfterAppend":
\* getBoundingClientRect throws once the span is attached
detectFonts(o) == IF o \in {"throw", "throwAfterAppend"} THEN EmptyStr ELSE <<o>>

\* the spans detectFonts leaves attached to the document: body.appendChild(span)
\* is undone by span.remove() at the end of the try block only
detectFontsSpans(o) == IF o = "throwAfterAppend" THEN 1 ELSE 0
getCanvasFingerprint(o) == IF o = "throw" THEN EmptyStr ELSE <<o>>
getWebGLFingerprint(o) == IF o \in {"throw", "absent"} THEN EmptyStr ELSE <<o>>

\* a rendering raced against a timer: a hung rendering still settles
getAudioFingerprintTimeout(o) ==
    IF o \in {"throw", "absent"}
    THEN [t |-> "promise", state |-> "fulfilled", fate |-> "fulfill", value |-> EmptyStr]
    ELSE [t |-> "promise", state |-> "pending", fate |-> "fulfill", value |-> EmptyStr]

\* a rendering listened to through a completion callback only: a rendering
\* that fails is never reported
getAudioFingerprintOnComplete(o) ==
    IF o \in {"throw", "absent"}
    THEN [t |-> "promise", state |-> "fulfilled", fate |-> "fulfill", value |-> EmptyStr]
    ELSE [t |-> "promise", state |-> "pending",
          fate |-> IF o \in {"hang", "reject"} THEN "never" ELSE "fulfill", value |-> EmptyStr]

\* getAudioFingerprint up to its first await: the promise it returns
getAudioFingerprint(o) ==
    IF o \in {"throw", "absent"}
    THEN [t |-> "promise", state |-> "fulfilled", fate |-> "fulfill", value |-> EmptyStr]
    ELSE [t |-> "promise", state |-> "pending",
          fate |-> IF o = "hang" THEN "never" ELSE "fulfill", value |-> EmptyStr]

\* getAudioFingerprint after ctx.startRendering() settled with outcome o
audioAfterRendering(o, d) ==
    IF o = "reject" THEN EmptyStr
    ELSE LET h == sha256HexFromArrayBuffer(o, d)
         IN IF h.kind = "throw" THEN EmptyStr ELSE h.v

(***************************************************************************)
(* Main generation function                                                *)
(***************************************************************************)
Defaults ==
    [k \in OptionKeys |-> CASE k = "fonts" -> TRUE
                            [] k = "audio" -> TRUE
                            [] k = "battery" -> FALSE
                            [] k = "mediaDevices" -> TRUE
                            [] k = "permissions" -> TRUE]

\* Object.assign with its arguments swapped: the defaults overwrite the options
ObjectAssignTargetWins(target, source) ==
    [k \in OptionKeys |-> target[k]]

\* Object.assign(target, source) on the option keys
ObjectAssign(target, source) ==
    [k \in OptionKeys |-> IF k \in DOMAIN source THEN source[k] ELSE target[k]]

\* the options arguments a call is made with: none (<< >> is generate() with no
\* argument), one key with either value, or every key set against its default
OptionArgs ==
    {<< >>} \cup {k :> b : k \in OptionKeys, b \in BOOLEAN}
            \cup {[k \in OptionKeys |-> ~Defaults[k]]}

\* a concatenation that escapes the record separator inside the value
PlusEscaped(prefix, x) ==
    prefix \o (IF x.t = "promise" THEN <<"[object Promise]">>
               ELSE [i \in DOMAIN x.s |-> IF x.s[i] = "||||" THEN "%7C%7C%7C%7C" ELSE x.s[i]])

\* prefix + x, with JavaScript's conversion of x to a string
Plus(prefix, x) ==
    prefix \o (IF x.t = "promise" THEN <<"[object Promise]">> ELSE x.s)

\* a || ''
OrEmpty(s) == IF s = EmptyStr THEN EmptyStr ELSE s

\* the two-bar separator, which the collectors use between their own fields
RecordSeparatorPair == <<"||">>

RecordSeparator == <<"||||">>

RECURSIVE Join(_, _)
Join(ps, sep) ==
    IF ps = << >> THEN EmptyStr
    ELSE IF Len(ps) = 1 THEN ps[1]
    ELSE ps[1] \o sep \o Join(Tail(ps), sep)

(***************************************************************************)
(* The collectors run directly against a host. A run records the calls it  *)
(* makes (the capability a called method belongs to, the method, its       *)
(* argument), the array it builds and what it returns.                     *)
(***************************************************************************)
Called(cap, method, arg) == [cap |-> cap, method |-> method, arg |-> arg]
Fulfilled(v) == [t |-> "promise", state |-> "fulfilled", fate |-> "fulfill", value |-> v]
PendingPromise == [t |-> "promise", state |-> "pending", fate |-> "fulfill", value |-> EmptyStr]
NewRun(name, h) == [name |-> name, host |-> h, pc |-> "done", i |-> 0,
                    log |-> << >>, out |-> << >>, ret |-> [kind |-> "none"]]

\* enumerateDevices() answers with a list of devices, of which the kind is read
MaxDevices == 3
MediaDeviceKinds == {"audioinput", "audiooutput", "videoinput"}
DeviceLists == UNION {[1 .. n -> MediaDeviceKinds] : n \in 0 .. MaxDevices}

\* the keys of kindCounts in the order Object.entries lists them: the order
\* in which list.forEach first assigned them
RECURSIVE KindsInOrder(_)
KindsInOrder(list) ==
    IF list = << >> THEN << >>
    ELSE LET before == KindsInOrder(SubSeq(list, 1, Len(list) - 1))
             d == list[Len(list)]
         IN IF \E i \in DOMAIN before : before[i] = d THEN before ELSE Append(before, d)

\* kindCounts[k] after list.forEach
KindCount(list, k) == Cardinality({i \in DOMAIN list : list[i] = k})

\* Object.entries(kindCounts).map(([k, v]) => `${k}:${v}`).join(',')
MediaDeviceString(list) ==
    LET order == KindsInOrder(list)
    IN Join([i \in DOMAIN order |-> <<order[i], ":", ToString(KindCount(list, order[i]))>>],
            <<",">>)

MediaDeviceHosts ==
    {[kind |-> k] : k \in {"absent", "noMethod", "throw", "reject"}}
    \cup {[kind |-> "devices", list |-> l] : l \in DeviceLists}

\* getMediaDeviceInfo up to its await
getMediaDeviceInfo(h) ==
    CASE h.kind \in {"absent", "noMethod"} ->
            [NewRun("mediaDevices", h) EXCEPT !.ret = Fulfilled(EmptyStr)]
      [] h.kind = "throw" ->
            [NewRun("mediaDevices", h) EXCEPT
                !.log = <<Called("mediaDevices", "enumerateDevices", "")>>,
                !.ret = Fulfilled(EmptyStr)]
      [] OTHER ->
            [NewRun("mediaDevices", h) EXCEPT
                !.log = <<Called("mediaDevices", "enumerateDevices", "")>>,
                !.pc = "await", !.ret = PendingPromise]

\* getMediaDeviceInfo once enumerateDevices() settled
mediaDevicesAfterEnumerate(r) ==
    [r EXCEPT !.pc = "done",
              !.ret = Fulfilled(IF r.host.kind = "reject" THEN EmptyStr
                                ELSE MediaDeviceString(r.host.list))]

\* const perms = [...], and what permissions.query does for a name
Perms == <<"camera", "microphone", "geolocation", "notifications">>
PermNames == {Perms[i] : i \in DOMAIN Perms}
PermOutcomes == {"granted", "denied", "prompt", "throw", "reject"}
PermissionHosts ==
    {[kind |-> k] : k \in {"absent", "noMethod"}}
    \cup {[kind |-> "present", answers |-> f] : f \in [PermNames -> PermOutcomes]}

\* `${p}:${status.state}` and `${p}:unknown`
PermEntry(p, state) == <<p, ":", state>>

\* a loop without the inner try: a query that throws ends the collector
permissionsLoopAbort(r, i) ==
    IF i > Len(Perms)
    THEN [r EXCEPT !.pc = "done", !.ret = Fulfilled(Join(r.out, <<",">>))]
    ELSE LET q == [r EXCEPT !.log = Append(@, Called("permissions", "query", Perms[i])), !.i = i]
         IN IF r.host.answers[Perms[i]] = "throw"
            THEN [q EXCEPT !.pc = "done", !.ret = Fulfilled(EmptyStr)]
            ELSE [q EXCEPT !.pc = "await", !.ret = PendingPromise]

\* for (const p of perms) from the i-th name on, up to the next await or the return
RECURSIVE permissionsLoop(_, _)
permissionsLoop(r, i) ==
    IF i > Len(Perms)
    THEN [r EXCEPT !.pc = "done", !.ret = Fulfilled(Join(r.out, <<",">>))]
    ELSE LET q == [r EXCEPT !.log = Append(@, Called("permissions", "query", Perms[i])), !.i = i]
         IN IF r.host.answers[Perms[i]] = "throw"
            THEN permissionsLoop([q EXCEPT !.out = Append(@, PermEntry(Perms[i], "unknown"))], i + 1)
            ELSE [q EXCEPT !.pc = "await", !.ret = PendingPromise]

\* getPermissionStates up to its first await
getPermissionStates(h) ==
    IF h.kind \in {"absent", "noMethod"}
    THEN [NewRun("permissions", h) EXCEPT !.ret = Fulfilled(EmptyStr)]
    ELSE permissionsLoop(NewRun("permissions", h), 1)

\* getPermissionStates once the query it awaits settled
permissionsAfterQuery(r) ==
    LET p == Perms[r.i]
        o == r.host.answers[p]
    IN permissionsLoop([r EXCEPT !.log = Append(@, Called("permissions", "settled", p)),
                                 !.out = Append(@, PermEntry(p, IF o = "reject" THEN "unknown" ELSE o))],
                       r.i + 1)

\* navigator.getBattery() answers with a battery: charging, and level in thousandths
BatteryLevels == {0, 504, 505, 1000}
BatteryHosts ==
    {[kind |-> k] : k \in {"absent", "throw", "reject"}}
    \cup {[kind |-> "battery", charging |-> c, level |-> l] : c \in BOOLEAN, l \in BatteryLevels}

\* `charging:${b.charging ? 1 : 0}|level:${Math.round((b.level || 0) * 100)}`
BatteryString(b) ==
    <<"charging", ":", IF b.charging THEN "1" ELSE "0", "|", "level", ":",
      ToString((b.level + 5) \div 10)>>

\* a collector that calls getBattery without looking whether it is there
getBatteryInfoUnchecked(h) ==
    IF h.kind \in {"absent", "throw"}
    THEN [NewRun("battery", h) EXCEPT
            !.log = <<Called("battery", "getBattery", "")>>, !.ret = Fulfilled(EmptyStr)]
    ELSE [NewRun("battery", h) EXCEPT
            !.log = <<Called("battery", "getBattery", "")>>,
            !.pc = "await", !.ret = PendingPromise]

\* getBatteryInfo up to its await
getBatteryInfo(h) ==
    CASE h.kind = "absent" -> [NewRun("battery", h) EXCEPT !.ret = Fulfilled(EmptyStr)]
      [] h.kind = "throw" ->
            [NewRun("battery", h) EXCEPT
                !.log = <<Called("battery", "getBattery", "")>>, !.ret = Fulfilled(EmptyStr)]
      [] OTHER ->
            [NewRun("battery", h) EXCEPT
                !.log = <<Called("battery", "getBattery", "")>>,
                !.pc = "await", !.ret = PendingPromise]

\* getBatteryInfo once getBattery() settled
batteryAfterGet(r) ==
    [r EXCEPT !.pc = "done",
              !.ret = Fulfilled(IF r.host.kind = "reject" THEN EmptyStr ELSE BatteryString(r.host))]

\* getWebGLFingerprint with the calls it makes: both context names are tried
\* on the canvas, the context is used only when there is one
RunWebGL(h) ==
    [NewRun("webgl", h) EXCEPT
        !.log = IF h.kind = "absent"
                THEN <<Called("document", "getContext", "webgl"),
                       Called("document", "getContext", "experimental-webgl")>>
                ELSE <<Called("document", "getContext", "webgl"),
                       Called("webgl", "getParameter", "")>>,
        !.ret = Str(getWebGLFingerprint(h.kind))]

\* getAudioFingerprint with the calls it makes, up to await ctx.startRendering()
RunAudio(h) ==
    LET p == getAudioFingerprint(h.kind)
    IN [NewRun("audio", h) EXCEPT
           !.log = CASE h.kind = "absent" -> << >>
                     [] h.kind = "throw" -> <<Called("audio", "new OfflineCtx", "")>>
                     [] OTHER -> <<Called("audio", "new OfflineCtx", ""),
                                   Called("audio", "startRendering", "")>>,
           !.pc = IF p.state = "pending" THEN "await" ELSE "done",
           !.ret = p]

\* getAudioFingerprint once the rendering settled, the digest being available
audioRunAfterRendering(r) ==
    [r EXCEPT !.pc = "done", !.ret = Fulfilled(audioAfterRendering(r.host.kind, "a"))]

CollectorNames == {"webgl", "audio", "mediaDevices", "permissions", "battery"}

CollectorHosts(name) ==
    CASE name = "webgl" -> {[kind |-> o] : o \in OutcomesOf("webgl")}
      [] name = "audio" -> {[kind |-> o] : o \in OutcomesOf("audio")}
      [] name = "mediaDevices" -> MediaDeviceHosts
      [] name = "permissions" -> PermissionHosts
      [] name = "battery" -> BatteryHosts

CollectorStart(name, h) ==
    CASE name = "webgl" -> RunWebGL(h)
      [] name = "audio" -> RunAudio(h)
      [] name = "mediaDevices" -> getMediaDeviceInfo(h)
      [] name = "permissions" -> getPermissionStates(h)
      [] name = "battery" -> getBatteryInfo(h)

CollectorAfterAwait(r) ==
    CASE r.name = "audio" -> audioRunAfterRendering(r)
      [] r.name = "mediaDevices" -> mediaDevicesAfterEnumerate(r)
      [] r.name = "permissions" -> permissionsAfterQuery(r)
      [] r.name = "battery" -> batteryAfterGet(r)

(***************************************************************************)
(* The compact DeviceID variant: three probes called directly by           *)
(* generate(), values joined with "||".                                    *)
(***************************************************************************)
Thrown == [kind |-> "throw"]

\* no try/catch: a missing 2d context (ctx is null) or a throwing canvas call
\* leaves the function by an exception
CompactGetCanvasFingerprint(o) ==
    IF o \in {"absent", "throw"} THEN Thrown ELSE Returned(<<o>>)

\* try/catch, and '' when there is no context
CompactGetWebGLFingerprint(o) ==
    IF o \in {"absent", "throw"} THEN Returned(EmptyStr) ELSE Returned(<<o>>)

\* try/catch around new AudioContext(...): '' when the constructor is missing
\* or throws, context.length.toString() otherwise
CompactGetAudioFingerprint(o) ==
    IF o \in {"absent", "throw"} THEN Returned(EmptyStr) ELSE Returned(<<"44100">>)

CompactHosts ==
    [nav : {"a", "b"}, canvas : {"a", "b", "absent", "throw"},
     webgl : {"a", "b", "absent", "throw"}, audio : {"a", "absent", "throw"},
     digest : {"a", "fail"}]

\* [navigatorInfo, screenInfo, timezone, canvas, webgl, audio].join("||")
CompactRawID(h, canvasValue) ==
    Join(<<<<h.nav>>, <<"a">>, <<"0">>, canvasValue,
           CompactGetWebGLFingerprint(h.webgl).v, CompactGetAudioFingerprint(h.audio).v>>,
         <<"||">>)

\* generate() of the variant up to await hashString(rawID)
CompactGenerateStart(h) ==
    LET c == CompactGetCanvasFingerprint(h.canvas)
    IN IF c.kind = "throw"
       THEN [pc |-> "rejected", host |-> h, rawID |-> EmptyStr, hashed |-> FALSE,
             value |-> <<"TypeError">>]
       ELSE [pc |-> "hashing", host |-> h, rawID |-> CompactRawID(h, c.v), hashed |-> TRUE,
             value |-> EmptyStr]

\* return await hashString(rawID), once crypto.subtle.digest settled
CompactAfterHash(r) ==
    IF r.host.digest = "fail"
    THEN [r EXCEPT !.pc = "rejected", !.value = <<"digest failed">>]
    ELSE [r EXCEPT !.pc = "resolved", !.value = Digest(r.rawID)]

(***************************************************************************)
(* WebsiteCapture.captureViewport (v2.0.0) and its SVG fallback            *)
(***************************************************************************)
\* what the host does at each step of a capture: the canvas set-up, the
\* element rendering, canvas.toDataURL in the primary path and after the
\* fallback, the SVG snapshot (throwing before or after createObjectURL),
\* the image load and ctx.drawImage inside onload
CaptureHosts ==
    [setup : {"ok", "throw"}, render : {"ok", "throw"}, encode : {"ok", "throw"},
     snapshot : {"ok", "throw", "throwAfterUrl"}, image : {"load", "error", "hang"},
     draw : {"ok", "throw"}, encodeAfter : {"ok", "throw"}]

NewCapture(h) ==
    [pc |-> "idle", host |-> h, state |-> "pending", value |-> EmptyStr, settleCalls |-> 0,
     primary |-> "none", fallback |-> "none", urls |-> 0, revoked |-> 0,
     revokedAtSettle |-> 0]

\* resolve(v) and reject(e) of the returned promise: only the first call settles it
Resolve(r, v) ==
    [r EXCEPT !.settleCalls = @ + 1,
              !.state = IF r.state = "pending" THEN "fulfilled" ELSE @,
              !.value = IF r.state = "pending" THEN v ELSE @]
Reject(r, e) ==
    [r EXCEPT !.settleCalls = @ + 1,
              !.state = IF r.state = "pending" THEN "rejected" ELSE @,
              !.value = IF r.state = "pending" THEN e ELSE @]

\* the executor of captureViewport: set-up inside try/catch, then
\* _captureWithHTML2Canvas, whose executor resolves or rejects at once
captureViewport(h) ==
    IF h.setup = "throw"
    THEN [Reject(NewCapture(h), <<"setup error">>) EXCEPT !.pc = "done"]
    ELSE [NewCapture(h) EXCEPT
            !.pc = "primarySettled",
            !.primary = IF h.render = "throw" THEN "rejected" ELSE "fulfilled"]

\* the executor of _captureFallback
captureFallback(r) ==
    CASE r.host.snapshot = "throw" ->
            [r EXCEPT !.pc = "fallbackSettled", !.fallback = "rejected"]
      [] r.host.snapshot = "throwAfterUrl" ->
            [r EXCEPT !.pc = "fallbackSettled", !.fallback = "rejected", !.urls = @ + 1]
      [] OTHER ->
            [r EXCEPT !.pc = "loading", !.fallback = "pending", !.urls = @ + 1]

\* .then(() => { toDataURL; resolve }) and .catch(() => fallback) on the
\* primary promise: the catch also receives what the then handler throws
primaryHandlers(r) ==
    IF r.primary = "fulfilled" /\ r.host.encode = "ok"
    THEN [Resolve(r, <<"image">>) EXCEPT !.pc = "done"]
    ELSE captureFallback(r)

\* img.onload and img.onerror
imageEvent(r) ==
    CASE r.host.image = "error" ->
            [r EXCEPT !.pc = "fallbackSettled", !.fallback = "rejected",
                      !.revoked = @ + 1, !.revokedAtSettle = r.revoked + 1]
      [] r.host.image = "load" /\ r.host.draw = "ok" ->
            [r EXCEPT !.pc = "fallbackSettled", !.fallback = "fulfilled",
                      !.revoked = @ + 1, !.revokedAtSettle = r.revoked + 1]
      [] OTHER ->
            \* drawImage throws inside onload: the handler ends there
            [r EXCEPT !.pc = "stuck"]

\* .then(() => { toDataURL; resolve }).catch(reject) on the fallback promise
fallbackHandlers(r) ==
    IF r.fallback = "fulfilled" /\ r.host.encodeAfter = "ok"
    THEN [Resolve(r, <<"image">>) EXCEPT !.pc = "done"]
    ELSE [Reject(r, <<"fallback error">>) EXCEPT !.pc = "done"]

(***************************************************************************)
(* State                                                                   *)
(***************************************************************************)
VARIABLES
    env,          \* the host environment, capability -> outcome
    pc,           \* position of each generate() call
    options,      \* the argument of each call
    cfg,          \* its effective configuration
    seen,         \* the outcome each capability gave to the call ("-" if not read)
    invoked,      \* the collectors the call has invoked
    parts,        \* its parts array
    promises,     \* the promises created by the call, by name
    raw,          \* the joined canonical string
    result,       \* what the caller received
    digestCalls,  \* number of times the call ran sha256Hex
    doneAtStart,  \* the calls that had already settled when the call was made
    spans,        \* number of measurement spans attached to the document
    hexArr,       \* the bytes of a digest being rendered (arr in sha256Hex)
    hexOut,       \* the strings arr.map has produced so far
    hexStr,       \* the joined fingerprint text, empty until join('') ran
    safeArg,      \* the arguments of a direct call of safe(), per caller
    safeRet,      \* what that call returned
    coll,         \* a direct run of one collector: its host, position, calls made, result
    compact,      \* a run of generate() of the compact variant
    capture       \* a run of WebsiteCapture.captureViewport

hexVars == <<hexArr, hexOut, hexStr>>
safeVars == <<safeArg, safeRet>>
runVars == <<coll, compact, capture>>
NoCall == [kind |-> "none"]

\* no collector, no compact generate() and no capture is running
IdleCollector == [name |-> "none", host |-> NoCall, pc |-> "idle", i |-> 0,
                  log |-> << >>, out |-> << >>, ret |-> NoCall]
IdleCompact == [pc |-> "idle"]
IdleCapture == [pc |-> "idle"]

vars == <<env, pc, options, cfg, seen, invoked, parts, promises, raw, result, digestCalls,
          doneAtStart, spans, hexArr, hexOut, hexStr,
          safeArg, safeRet, coll, compact, capture>>

genVars == <<env, pc, options, cfg, seen, invoked, parts, promises, raw, result, digestCalls,
             doneAtStart, spans>>

SeenKeys == Caps \cup {"audioDigest"}
NotSeen == [k \in SeenKeys |-> "-"]
NoResult == [delivered |-> FALSE, value |-> EmptyStr]
NoPromises == [p \in {} |-> 0]

Joined(c) == pc[c] \in {"digesting", "resolved", "rejected"}

\* the six probes pushed first, in the order of the source
DirectOrder == <<"nav", "screen", "intl", "mediaQueries", "connection", "plugins">>

DirectCollector(name, o) ==
    CASE name = "nav" -> collectStableNavigator(o)
      [] name = "screen" -> collectStableScreen(o)
      [] name = "intl" -> collectIntl(o)
      [] name = "mediaQueries" -> collectMediaQueries(o)
      [] name = "connection" -> getConnectionInfo(o)
      [] name = "plugins" -> getPluginsAndMimes(o)

\* a parts array kept at module level and never cleared between calls
NewPartsShared ==
    IF \E d \in CallIds : Joined(d)
    THEN parts[CHOOSE d \in CallIds : Joined(d)]
    ELSE << >>

\* a parts array shared by the calls that are in flight together
NewPartsInFlight ==
    IF \E d \in CallIds : pc[d] \in {"awaitAudio", "digesting"}
    THEN parts[CHOOSE d \in CallIds : pc[d] \in {"awaitAudio", "digesting"}]
    ELSE << >>

\* const parts = []
NewParts == << >>

\* Each step of the synchronous part of generate() gives the segments it
\* pushes, the collectors it invokes and the promises it creates.

\* parts.push('nav:' + collectStableNavigator()) ... parts.push('plugins:' + ...)
DirectStep(e) ==
    [pushed |-> [i \in 1..Len(DirectOrder) |->
                    Plus(<<DirectOrder[i], ":">>,
                         Str(DirectCollector(DirectOrder[i], e[DirectOrder[i]])))],
     invoked |-> DirectProbes,
     promises |-> NoPromises]

\* the fonts probe run whatever cfg.fonts says
FontsStepUngated(config, e) ==
    LET p == safe(Returned(detectFonts(e["fonts"])), EmptyStr)
    IN [pushed |-> <<Plus(<<"fonts", ":">>, p)>>,
        invoked |-> {"fonts"},
        promises |-> ("fonts" :> p)]

\* a disabled fonts probe that still pushes an empty segment
FontsStepPlaceholder(config, e) ==
    IF config["fonts"]
    THEN LET p == safe(Returned(detectFonts(e["fonts"])), EmptyStr)
         IN [pushed |-> <<Plus(<<"fonts", ":">>, p)>>,
             invoked |-> {"fonts"},
             promises |-> ("fonts" :> p)]
    ELSE [pushed |-> <<<<"fonts", ":">>>>, invoked |-> {}, promises |-> NoPromises]

\* if (cfg.fonts) parts.push('fonts:' + safe(() => detectFonts(), ''))
FontsStep(config, e) ==
    IF config["fonts"]
    THEN LET p == safe(Returned(detectFonts(e["fonts"])), EmptyStr)
         IN [pushed |-> <<Plus(<<"fonts", ":">>, p)>>,
             invoked |-> {"fonts"},
             promises |-> ("fonts" :> p)]
    ELSE [pushed |-> << >>, invoked |-> {}, promises |-> NoPromises]

\* the webgl segment pushed before the canvas segment
CanvasWebglStepSwapped(e) ==
    LET pc_ == safe(Returned(getCanvasFingerprint(e["canvas"])), EmptyStr)
        pw == safe(Returned(getWebGLFingerprint(e["webgl"])), EmptyStr)
    IN [pushed |-> <<Plus(<<"webgl", ":">>, pw), Plus(<<"canvas", ":">>, pc_)>>,
        invoked |-> {"canvas", "webgl"},
        promises |-> ("canvas" :> pc_) @@ ("webgl" :> pw)]

\* parts.push('canvas:' + safe(...)); parts.push('webgl:' + safe(...))
CanvasWebglStep(e) ==
    LET pc_ == safe(Returned(getCanvasFingerprint(e["canvas"])), EmptyStr)
        pw == safe(Returned(getWebGLFingerprint(e["webgl"])), EmptyStr)
    IN [pushed |-> <<Plus(<<"canvas", ":">>, pc_), Plus(<<"webgl", ":">>, pw)>>,
        invoked |-> {"canvas", "webgl"},
        promises |-> ("canvas" :> pc_) @@ ("webgl" :> pw)]

\* if (cfg.audio) { ... await getAudioFingerprint() ... }: the call made before the await
AudioStep(config, e) ==
    IF config["audio"]
    THEN [pushed |-> << >>, invoked |-> {"audio"},
          promises |-> ("audio" :> getAudioFingerprint(e["audio"]))]
    ELSE [pushed |-> << >>, invoked |-> {}, promises |-> NoPromises]

\* parts.push('audio:' + (audioHash || '')), or parts.push('audio:') in the catch
AudioSegment(p) ==
    IF p.state = "rejected"
    THEN <<"audio", ":">>
    ELSE Plus(<<"audio", ":">>, Str(OrEmpty(p.value)))

\* a digest failure swallowed and answered with an empty identifier
ReturnAwaitPlaceholder(p) ==
    IF p.fate = "fulfill"
    THEN [pc |-> "resolved", result |-> [delivered |-> TRUE, value |-> p.value]]
    ELSE [pc |-> "resolved", result |-> [delivered |-> TRUE, value |-> EmptyStr]]

\* a failed digest answered by running the call again from the start
ReturnAwaitRetry(p) ==
    IF p.fate = "fulfill"
    THEN [pc |-> "resolved", result |-> [delivered |-> TRUE, value |-> p.value]]
    ELSE [pc |-> "idle", result |-> NoResult]

\* return await sha256Hex(raw): what the caller gets when the digest promise settles
ReturnAwait(p) ==
    IF p.fate = "fulfill"
    THEN [pc |-> "resolved", result |-> [delivered |-> TRUE, value |-> p.value]]
    ELSE [pc |-> "rejected", result |-> NoResult]

Init ==
    /\ env = BaseEnv
    /\ pc = [c \in CallIds |-> "idle"]
    /\ options = [c \in CallIds |-> << >>]
    /\ cfg = [c \in CallIds |-> Defaults]
    /\ seen = [c \in CallIds |-> NotSeen]
    /\ invoked = [c \in CallIds |-> {}]
    /\ parts = [c \in CallIds |-> << >>]
    /\ promises = [c \in CallIds |-> NoPromises]
    /\ raw = [c \in CallIds |-> EmptyStr]
    /\ result = [c \in CallIds |-> NoResult]
    /\ digestCalls = [c \in CallIds |-> 0]
    /\ doneAtStart = [c \in CallIds |-> {}]
    /\ spans = 0
    /\ hexArr = << >>
    /\ hexOut = << >>
    /\ hexStr = << >>
    /\ safeArg = [c \in CallIds |-> NoCall]
    /\ safeRet = [c \in CallIds |-> NoCall]
    /\ coll = IdleCollector
    /\ compact = IdleCompact
    /\ capture = IdleCapture

\* the host environment changes in one capability; no call has met a changed
\* capability before
Perturb(cap, o) ==
    /\ env = BaseEnv
    /\ \A c \in CallIds : \A k \in SeenKeys : seen[c][k] \in {"-", "a"}
    /\ o \in OutcomesOf(cap) \ {"a"}
    /\ env' = [env EXCEPT ![cap] = o]
    /\ UNCHANGED <<hexVars, safeVars, runVars>>
    /\ UNCHANGED <<pc, options, cfg, seen, invoked, parts, promises, raw, result, digestCalls,
                   doneAtStart, spans>>

\* the digest primitive becomes available again
DigestRecovers ==
    /\ env["digest"] = "fail"
    /\ env' = BaseEnv
    /\ UNCHANGED <<hexVars, safeVars, runVars>>
    /\ UNCHANGED <<pc, options, cfg, seen, invoked, parts, promises, raw, result, digestCalls,
                   doneAtStart, spans>>

\* const raw = parts.join('||||'); return await sha256Hex(raw);
JoinAndHash(c, ps, proms, sn) ==
    /\ parts' = [parts EXCEPT ![c] = ps]
    /\ raw' = [raw EXCEPT ![c] = Join(ps, RecordSeparator)]
    /\ promises' = [promises EXCEPT
                      ![c] = proms @@ ("digest" :> sha256Hex(Join(ps, RecordSeparator), env["digest"]))]
    /\ seen' = [seen EXCEPT ![c] = [sn EXCEPT !["digest"] = env["digest"]]]
    /\ digestCalls' = [digestCalls EXCEPT ![c] = @ + 1]
    /\ pc' = [pc EXCEPT ![c] = "digesting"]

\* generate(opts) up to its first await
Generate(c, opts) ==
    /\ pc[c] = "idle"
    /\ \A d \in CallIds : d < c => pc[d] # "idle"
    /\ LET config == ObjectAssign(Defaults, opts)
           s1 == DirectStep(env)
           s2 == FontsStep(config, env)
           s3 == CanvasWebglStep(env)
           s4 == AudioStep(config, env)
           ps == NewParts \o s1.pushed \o s2.pushed \o s3.pushed
           inv == s1.invoked \cup s2.invoked \cup s3.invoked \cup s4.invoked
           sn == [k \in SeenKeys |-> IF k \in inv THEN env[k] ELSE "-"]
           proms == s1.promises @@ s2.promises @@ s3.promises @@ s4.promises
       IN /\ options' = [options EXCEPT ![c] = opts]
          /\ cfg' = [cfg EXCEPT ![c] = config]
          /\ invoked' = [invoked EXCEPT ![c] = inv]
          /\ IF config["audio"]
             THEN /\ parts' = [parts EXCEPT ![c] = ps]
                  /\ promises' = [promises EXCEPT ![c] = proms]
                  /\ seen' = [seen EXCEPT ![c] = sn]
                  /\ pc' = [pc EXCEPT ![c] = "awaitAudio"]
                  /\ UNCHANGED <<raw, digestCalls>>
             ELSE JoinAndHash(c, ps, proms, sn)
          /\ spans' = spans + (IF "fonts" \in inv THEN detectFontsSpans(env["fonts"]) ELSE 0)
    /\ doneAtStart' = [doneAtStart EXCEPT ![c] = {d \in CallIds : pc[d] \in {"resolved", "rejected"}}]
    /\ UNCHANGED <<hexVars, safeVars, runVars>>
    /\ UNCHANGED <<env, result>>

\* ctx.startRendering() settles and getAudioFingerprint runs to its return
AudioSettle(c) ==
    /\ pc[c] = "awaitAudio"
    /\ promises[c]["audio"].state = "pending"
    /\ promises[c]["audio"].fate # "never"
    /\ promises' = [promises EXCEPT
                      ![c]["audio"] = [@ EXCEPT !.state = "fulfilled",
                                                !.value = audioAfterRendering(seen[c]["audio"], env["digest"])]]
    /\ seen' = [seen EXCEPT ![c]["audioDigest"] =
                                IF seen[c]["audio"] = "reject" THEN "-" ELSE env["digest"]]
    /\ UNCHANGED <<hexVars, safeVars, runVars>>
    /\ UNCHANGED <<env, pc, options, cfg, invoked, parts, raw, result, digestCalls,
                   doneAtStart, spans>>

\* generate() resumes after await getAudioFingerprint()
ResumeAfterAudio(c) ==
    /\ pc[c] = "awaitAudio"
    /\ promises[c]["audio"].state # "pending"
    /\ JoinAndHash(c, Append(parts[c], AudioSegment(promises[c]["audio"])), promises[c], seen[c])
    /\ UNCHANGED <<hexVars, safeVars, runVars>>
    /\ UNCHANGED <<env, options, cfg, invoked, result, doneAtStart, spans>>

\* crypto.subtle.digest settles and generate() returns or throws
DigestSettle(c) ==
    /\ pc[c] = "digesting"
    /\ promises[c]["digest"].state = "pending"
    /\ promises' = [promises EXCEPT ![c]["digest"].state =
                        IF promises[c]["digest"].fate = "fulfill" THEN "fulfilled" ELSE "rejected"]
    /\ result' = [result EXCEPT ![c] = ReturnAwait(promises[c]["digest"]).result]
    /\ pc' = [pc EXCEPT ![c] = ReturnAwait(promises[c]["digest"]).pc]
    /\ UNCHANGED <<hexVars, safeVars, runVars>>
    /\ UNCHANGED <<env, options, cfg, seen, invoked, parts, raw, digestCalls, doneAtStart, spans>>

\* the options that select each branch the code takes on its configuration
GatingOptionArgs == {<< >>} \cup {k :> FALSE : k \in {"fonts", "audio"}}

\* generate() in a changing environment
Next ==
    \/ \E cap \in Caps : \E o \in OutcomesOf(cap) : Perturb(cap, o)
    \/ DigestRecovers
    \/ \E c \in CallIds : \E opts \in GatingOptionArgs : Generate(c, opts)
    \/ \E c \in CallIds : AudioSettle(c)
    \/ \E c \in CallIds : ResumeAfterAudio(c)
    \/ \E c \in CallIds : DigestSettle(c)

Spec == Init /\ [][Next]_vars

\* The host settles the promises that can settle, and the job queue runs the
\* continuation of a call whose awaited promise has settled.
Fairness ==
    \A c \in CallIds :
        /\ WF_vars(AudioSettle(c))
        /\ WF_vars(ResumeAfterAudio(c))
        /\ WF_vars(DigestSettle(c))

\* the capabilities whose promises generate() waits on
AwaitedCaps == {"audio", "digest"}

\* generate() while a capability it waits on changes
NextLive ==
    \/ \E cap \in AwaitedCaps : \E o \in OutcomesOf(cap) : Perturb(cap, o)
    \/ \E c \in CallIds : \E opts \in GatingOptionArgs : Generate(c, opts)
    \/ \E c \in CallIds : AudioSettle(c)
    \/ \E c \in CallIds : ResumeAfterAudio(c)
    \/ \E c \in CallIds : DigestSettle(c)

SpecFair == Init /\ [][NextLive]_vars /\ Fairness

\* a host value that holds the separators turns up in one capability
Inject(cap) ==
    /\ env # [BaseEnv EXCEPT ![cap] = "inj"]
    /\ env' = [BaseEnv EXCEPT ![cap] = "inj"]
    /\ UNCHANGED <<hexVars, safeVars, runVars>>
    /\ UNCHANGED <<pc, options, cfg, seen, invoked, parts, promises, raw, result, digestCalls,
                   doneAtStart, spans>>

\* generate() over host values that hold the separators
NextEnc ==
    \/ \E cap \in {"nav", "screen"} : Inject(cap)
    \/ \E c \in CallIds : \E opts \in GatingOptionArgs : Generate(c, opts)
    \/ \E c \in CallIds : AudioSettle(c)
    \/ \E c \in CallIds : ResumeAfterAudio(c)
    \/ \E c \in CallIds : DigestSettle(c)

SpecEnc == Init /\ [][NextEnc]_vars

\* the state in which a digest has arrived and no generate() call was made
InitHex ==
    /\ env = BaseEnv
    /\ pc = [c \in CallIds |-> "idle"]
    /\ options = [c \in CallIds |-> << >>]
    /\ cfg = [c \in CallIds |-> Defaults]
    /\ seen = [c \in CallIds |-> NotSeen]
    /\ invoked = [c \in CallIds |-> {}]
    /\ parts = [c \in CallIds |-> << >>]
    /\ promises = [c \in CallIds |-> NoPromises]
    /\ raw = [c \in CallIds |-> EmptyStr]
    /\ result = [c \in CallIds |-> NoResult]
    /\ digestCalls = [c \in CallIds |-> 0]
    /\ doneAtStart = [c \in CallIds |-> {}]
    /\ spans = 0
    /\ hexArr \in DigestArrays
    /\ hexOut = << >>
    /\ hexStr = << >>
    /\ safeArg = [c \in CallIds |-> NoCall]
    /\ safeRet = [c \in CallIds |-> NoCall]
    /\ coll = IdleCollector
    /\ compact = IdleCompact
    /\ capture = IdleCapture

\* arr.map(...) visits the next byte of the digest
HexMap ==
    /\ Len(hexOut) < Len(hexArr)
    /\ hexOut' = Append(hexOut, HexOfByte(hexArr[Len(hexOut) + 1]))
    /\ UNCHANGED <<hexArr, hexStr>>
    /\ UNCHANGED <<env, pc, options, cfg, seen, invoked, parts, promises, raw, result,
                   digestCalls, doneAtStart, spans, safeArg, safeRet>>
    /\ UNCHANGED runVars

\* .join('') on the mapped array
HexJoin ==
    /\ hexArr # << >>
    /\ Len(hexOut) = Len(hexArr)
    /\ hexStr = << >>
    /\ hexStr' = JoinEmpty(hexOut)
    /\ UNCHANGED <<hexArr, hexOut>>
    /\ UNCHANGED <<env, pc, options, cfg, seen, invoked, parts, promises, raw, result,
                   digestCalls, doneAtStart, spans, safeArg, safeRet>>
    /\ UNCHANGED runVars

NextHex == HexMap \/ HexJoin

SpecHex == InitHex /\ [][NextHex]_vars

\* caller c runs safe(fn, fallback) where calling fn does r
SafeCall(c, r, fallback) ==
    /\ safeArg[c] = NoCall
    /\ safeArg' = [safeArg EXCEPT ![c] = [kind |-> "call", fn |-> r, fallback |-> fallback]]
    /\ safeRet' = [safeRet EXCEPT ![c] = safe(r, fallback)]
    /\ UNCHANGED <<hexVars, runVars>>
    /\ UNCHANGED <<env, pc, options, cfg, seen, invoked, parts, promises, raw, result,
                   digestCalls, doneAtStart, spans>>

\* the promise safe() returned settles, after the promise of fn has
SafeSettle(c) ==
    /\ safeRet[c] # NoCall
    /\ safeRet[c].state = "pending"
    /\ safeRet' = [safeRet EXCEPT ![c].state =
                        IF safeRet[c].fate = "fulfill" THEN "fulfilled" ELSE "rejected"]
    /\ UNCHANGED <<hexVars, safeArg, runVars>>
    /\ UNCHANGED <<env, pc, options, cfg, seen, invoked, parts, promises, raw, result,
                   digestCalls, doneAtStart, spans>>

NextSafe ==
    \/ \E c \in CallIds : \E r \in FnOutcomes : \E fallback \in Fallbacks : SafeCall(c, r, fallback)
    \/ \E c \in CallIds : SafeSettle(c)

SpecSafe == Init /\ [][NextSafe]_vars

\* a collector is called against a host
CollectorCall(name, h) ==
    /\ coll.pc = "idle"
    /\ coll' = CollectorStart(name, h)
    /\ UNCHANGED <<genVars, hexVars, safeVars, compact, capture>>

\* the host promise the collector awaits settles and the collector goes on
CollectorResume ==
    /\ coll.pc = "await"
    /\ coll.ret.fate # "never"
    /\ coll' = CollectorAfterAwait(coll)
    /\ UNCHANGED <<genVars, hexVars, safeVars, compact, capture>>

NextColl ==
    \/ \E name \in CollectorNames : \E h \in CollectorHosts(name) : CollectorCall(name, h)
    \/ CollectorResume

SpecColl == Init /\ [][NextColl]_vars

\* generate() of the compact variant is called in a host
CompactGenerate(h) ==
    /\ compact.pc = "idle"
    /\ compact' = CompactGenerateStart(h)
    /\ UNCHANGED <<genVars, hexVars, safeVars, coll, capture>>

\* the digest settles and generate() returns
CompactHashSettle ==
    /\ compact.pc = "hashing"
    /\ compact' = CompactAfterHash(compact)
    /\ UNCHANGED <<genVars, hexVars, safeVars, coll, capture>>

NextCompact ==
    \/ \E h \in CompactHosts : CompactGenerate(h)
    \/ CompactHashSettle

SpecCompact == Init /\ [][NextCompact]_vars

\* captureViewport() is called in a host
CaptureViewport(h) ==
    /\ capture.pc = "idle"
    /\ capture' = captureViewport(h)
    /\ UNCHANGED <<genVars, hexVars, safeVars, coll, compact>>

\* the handlers chained on the primary promise run
CapturePrimaryHandlers ==
    /\ capture.pc = "primarySettled"
    /\ capture' = primaryHandlers(capture)
    /\ UNCHANGED <<genVars, hexVars, safeVars, coll, compact>>

\* the image of the fallback loads or fails to
CaptureImageEvent ==
    /\ capture.pc = "loading"
    /\ capture.host.image # "hang"
    /\ capture' = imageEvent(capture)
    /\ UNCHANGED <<genVars, hexVars, safeVars, coll, compact>>

\* the handlers chained on the fallback promise run
CaptureFallbackHandlers ==
    /\ capture.pc = "fallbackSettled"
    /\ capture' = fallbackHandlers(capture)
    /\ UNCHANGED <<genVars, hexVars, safeVars, coll, compact>>

NextCapture ==
    \/ \E h \in CaptureHosts : CaptureViewport(h)
    \/ CapturePrimaryHandlers
    \/ CaptureImageEvent
    \/ CaptureFallbackHandlers

SpecCapture == Init /\ [][NextCapture]_vars

\* generate() with every options argument, in the unperturbed environment
NextCfg ==
    \/ \E c \in CallIds : \E opts \in OptionArgs : Generate(c, opts)
    \/ \E c \in CallIds : AudioSettle(c)
    \/ \E c \in CallIds : ResumeAfterAudio(c)
    \/ \E c \in CallIds : DigestSettle(c)

SpecCfg == Init /\ [][NextCfg]_vars

(***************************************************************************)
(* Properties                                                              *)
(***************************************************************************)
SegValue(seg) == SubSeq(seg, 3, Len(seg))
SegmentsNamed(c, name) == {i \in DOMAIN parts[c] : parts[c][i][1] = name}
HasSegment(c, name) == SegmentsNamed(c, name) # {}
ValueOf(c, name) == SegValue(parts[c][CHOOSE i \in SegmentsNamed(c, name) : TRUE])
Without(ps, name) == SelectSeq(ps, LAMBDA seg : seg[1] # name)

\* what the collector of probe p returned to call c
ProbeOutput(c, p) ==
    IF p \in DirectProbes THEN DirectCollector(p, seen[c][p]) ELSE promises[c][p].value

\* the readings two calls both took agree
SameReadings(c, d) ==
    \A k \in SeenKeys : seen[c][k] = "-" \/ seen[d][k] = "-" \/ seen[c][k] = seen[d][k]

DiffKeys(c, d) == {k \in OptionKeys : cfg[c][k] # cfg[d][k]}

\* C1: two calls that took the same readings of the environment under the same
\* configuration join the same canonical string, and when both resolve they
\* return the same fingerprint.
C1_Determinism ==
    \A c, d \in CallIds :
        (Joined(c) /\ Joined(d) /\ seen[c] = seen[d] /\ cfg[c] = cfg[d])
            => /\ raw[c] = raw[d]
               /\ (pc[c] = "resolved" /\ pc[d] = "resolved" => result[c] = result[d])

C1_Witness ==
    \E c, d \in CallIds :
        /\ c # d
        /\ pc[c] = "resolved" /\ pc[d] = "resolved"
        /\ seen[c] = seen[d] /\ cfg[c] = cfg[d]
        /\ "audio" \in invoked[c]
        /\ result[c].delivered /\ result[c] = result[d]

\* C2: when one probe's collector met a throwing or rejecting capability, the
\* resolved call's canonical string holds that probe's segment with an empty
\* value and every other probe's segment with the value its collector returned.
C2_Isolation ==
    \A c \in CallIds : \A p \in GenerateProbes :
        (pc[c] = "resolved" /\ p \in invoked[c] /\ seen[c][p] \in {"throw", "reject"})
            => /\ HasSegment(c, p)
               /\ ValueOf(c, p) = EmptyStr
               /\ \A q \in invoked[c] \ {p} : HasSegment(c, q) /\ ValueOf(c, q) = ProbeOutput(c, q)

\* C3: two calls under the same configuration whose collectors returned the
\* same values except for exactly one probe join different canonical strings.
C3_Sensitivity ==
    \A c, d \in CallIds : \A p \in GenerateProbes :
        ( /\ Joined(c) /\ Joined(d) /\ cfg[c] = cfg[d]
          /\ p \in invoked[c]
          /\ ProbeOutput(c, p) # ProbeOutput(d, p)
          /\ \A q \in invoked[c] \ {p} : ProbeOutput(c, q) = ProbeOutput(d, q) )
            => raw[c] # raw[d]

C5_DigestFailure ==
    \A c \in CallIds :
        /\ digestCalls[c] <= 1
        /\ (Joined(c) /\ seen[c]["digest"] = "fail")
              => /\ ~result[c].delivered
                 /\ pc[c] # "resolved"
                 /\ digestCalls[c] = 1
                 /\ (promises[c]["digest"].state # "pending" => pc[c] = "rejected")

C5_Witness ==
    \E c \in CallIds :
        pc[c] = "rejected" /\ seen[c]["digest"] = "fail" /\ ~result[c].delivered

\* C6: once the canonical string is joined, every promise the call created
\* for a probe has settled and the probe's segment holds its settled value.
C6_JoinAll ==
    \A c \in CallIds :
        Joined(c) =>
            \A p \in DOMAIN promises[c] \ {"digest"} :
                /\ promises[c][p].state # "pending"
                /\ HasSegment(c, p)
                /\ ValueOf(c, p) = promises[c][p].value

\* C7: when generate() is waiting, every enabled asynchronous probe has been
\* started.
C7_ConcurrentDispatch ==
    \A c \in CallIds :
        pc[c] = "awaitAudio" =>
            \A k \in {"audio", "permissions", "mediaDevices", "battery"} :
                cfg[c][k] => k \in invoked[c]

\* C8: a finished call with mediaDevices, permissions or battery enabled
\* invoked that collector and its canonical string has that probe's segment.
C8_EnabledProbesContribute ==
    \A c \in CallIds : \A k \in UnusedProbes :
        (Joined(c) /\ cfg[c][k]) => (k \in invoked[c] /\ HasSegment(c, k))

\* C9: a call never invokes the collector of a category whose option is false.
C9_Gating ==
    \A c \in CallIds : \A k \in OptionKeys :
        (pc[c] # "idle" /\ ~cfg[c][k]) => k \notin invoked[c]

C9_Witness ==
    \E c \in CallIds :
        /\ pc[c] = "resolved"
        /\ ~cfg[c]["fonts"] /\ ~cfg[c]["audio"]
        /\ invoked[c] = DirectProbes \cup {"canvas", "webgl"}

\* C10: the effective configuration is fonts, audio, mediaDevices and
\* permissions on and battery off, except for the keys the options carry;
\* without an argument it is exactly those defaults.
C10_ConfigurationDefaults ==
    \A c \in CallIds :
        pc[c] # "idle" =>
            /\ \A k \in OptionKeys :
                  cfg[c][k] = IF k \in DOMAIN options[c] THEN options[c][k] ELSE (k # "battery")
            /\ options[c] = << >> =>
                  /\ cfg[c]["fonts"] /\ cfg[c]["audio"] /\ ~cfg[c]["battery"]
                  /\ cfg[c]["mediaDevices"] /\ cfg[c]["permissions"]

C10_Witness ==
    \E c, d \in CallIds :
        /\ pc[c] # "idle" /\ options[c] = << >>
        /\ pc[d] # "idle" /\ DOMAIN options[d] = OptionKeys
        /\ cfg[d]["battery"] /\ ~cfg[d]["fonts"]

\* the order in which generate() pushes its segments
RegistryOrder == DirectOrder \o <<"fonts", "canvas", "webgl", "audio">>
AlwaysRun == DirectProbes \cup {"canvas", "webgl"}
IndexIn(order, name) == CHOOSE i \in DOMAIN order : order[i] = name

\* C11: in every call, whatever its configuration, each of nav, screen, intl,
\* mediaQueries, connection, plugins, canvas and webgl has exactly one
\* segment, every segment name is a known one, and the segments present
\* follow the declaration order.
C11_FixedOrder ==
    \A c \in CallIds :
        pc[c] # "idle" =>
            /\ \A p \in AlwaysRun : Cardinality(SegmentsNamed(c, p)) = 1
            /\ \A i \in DOMAIN parts[c] : \E k \in DOMAIN RegistryOrder : RegistryOrder[k] = parts[c][i][1]
            /\ \A i \in 1 .. Len(parts[c]) - 1 :
                  IndexIn(RegistryOrder, parts[c][i][1]) < IndexIn(RegistryOrder, parts[c][i + 1][1])

C11_Witness ==
    \E c, d \in CallIds :
        /\ pc[c] = "resolved" /\ Len(parts[c]) = 10
        /\ [i \in DOMAIN parts[c] |-> parts[c][i][1]] = RegistryOrder
        /\ Joined(d) /\ Len(parts[d]) = 8

\* the segments a call running alone pushes for the readings and the
\* configuration of call c, up to the position call c has reached
IsolatedParts(c) ==
    DirectStep(seen[c]).pushed \o FontsStep(cfg[c], seen[c]).pushed
        \o CanvasWebglStep(seen[c]).pushed
        \o (IF Joined(c) /\ cfg[c]["audio"] THEN <<AudioSegment(promises[c]["audio"])>> ELSE << >>)

Started(c) == pc[c] # "idle"
Overlapped(c, d) ==
    /\ c # d /\ Started(c) /\ Started(d)
    /\ c \notin doneAtStart[d] /\ d \notin doneAtStart[c]

\* C12: of two calls that ran in parallel, each holds at every moment exactly
\* the segments an isolated call holds, and with the same readings and
\* configuration both return the fingerprint of the isolated call.
C12_ConcurrencySafety ==
    \A c, d \in CallIds :
        Overlapped(c, d) =>
            /\ parts[c] = IsolatedParts(c)
            /\ (pc[c] = "resolved" /\ pc[d] = "resolved" /\ seen[c] = seen[d] /\ cfg[c] = cfg[d])
                  => /\ result[c].value = Digest(Join(IsolatedParts(c), RecordSeparator))
                     /\ result[d].value = result[c].value

C12_Witness ==
    \E c, d \in CallIds :
        /\ Overlapped(c, d)
        /\ pc[c] = "resolved" /\ pc[d] = "resolved"
        /\ seen[c] = seen[d] /\ cfg[c] = cfg[d]
        /\ cfg[c]["audio"] /\ env # BaseEnv
        /\ result[c].delivered /\ result[d].value = result[c].value

\* C13: a call whose offline audio rendering never settles stays at its
\* await for ever: it joins no canonical string, starts no digest and
\* delivers nothing, and its audio promise stays pending.
C13_NoTimeout ==
    \A c \in CallIds :
        (Started(c) /\ seen[c]["audio"] = "hang") =>
            /\ pc[c] = "awaitAudio"
            /\ promises[c]["audio"].state = "pending"
            /\ "digest" \notin DOMAIN promises[c]
            /\ raw[c] = EmptyStr /\ digestCalls[c] = 0
            /\ ~result[c].delivered

\* no step changes anything of a call waiting on a hung rendering
C13_Witness ==
    \E c, d \in CallIds :
        /\ seen[c]["audio"] = "hang" /\ pc[c] = "awaitAudio"
        /\ ~ENABLED AudioSettle(c) /\ ~ENABLED ResumeAfterAudio(c)
        /\ pc[d] = "resolved" /\ ~cfg[d]["audio"]

Done(c) == pc[c] \in {"resolved", "rejected"}

\* C14: when every capability promise a call waits on settles (its audio
\* rendering does not hang), the call eventually resolves or rejects.
C14_Termination ==
    \A c \in CallIds :
        (Started(c) /\ seen[c]["audio"] # "hang") ~> Done(c)

C14_Witness ==
    \E c \in CallIds :
        /\ Done(c) /\ seen[c]["audio"] = "reject"
        /\ promises[c]["audio"].state = "fulfilled"
        /\ promises[c]["digest"].state # "pending"

\* the steps between the phases of one call: collecting ("awaitAudio" is its
\* await), serializing and digesting (one synchronous step), done
PhaseSteps ==
    { <<"idle", "awaitAudio">>, <<"idle", "digesting">>, <<"awaitAudio", "digesting">>,
      <<"digesting", "resolved">>, <<"digesting", "rejected">> }

\* C15: a call moves through its phases in order and enters none twice; once
\* the canonical string is joined no collector runs and the string is not
\* rebuilt; a settled call, a failed digest included, never moves again; a
\* call made after a failed call holds the segments and returns the
\* fingerprint of an isolated call.
C15_PhaseOrder ==
    /\ [](\A c, d \in CallIds :
            (Started(c) /\ d \in doneAtStart[c] /\ pc[d] = "rejected") =>
                /\ parts[c] = IsolatedParts(c)
                /\ digestCalls[c] <= 1
                /\ pc[c] = "resolved" =>
                      result[c].value = Digest(Join(IsolatedParts(c), RecordSeparator)))
    /\ [][\A c \in CallIds :
            /\ pc'[c] # pc[c] => <<pc[c], pc'[c]>> \in PhaseSteps
            /\ Joined(c) => /\ invoked'[c] = invoked[c]
                            /\ parts'[c] = parts[c]
                            /\ raw'[c] = raw[c]
                            /\ digestCalls'[c] = digestCalls[c]
            /\ Done(c) => pc'[c] = pc[c] /\ result'[c] = result[c]]_vars

C15_Witness ==
    \E c, d \in CallIds :
        /\ pc[d] = "rejected" /\ digestCalls[d] = 1
        /\ d \in doneAtStart[c]
        /\ pc[c] = "resolved" /\ result[c].delivered
        /\ cfg[c]["audio"]

\* C16: whatever calls of generate() have run, and however detectFonts
\* ended, no span created by detectFonts is attached to the document.
C16_ScopedRelease == spans = 0

\* the names of the segments of call c, in declaration order
SegmentNames(c) == SelectSeq(RegistryOrder, LAMBDA p : p \in invoked[c])

\* name:value with the value the collector returned
ClaimedSegment(c, p) == <<p, ":">> \o ProbeOutput(c, p)

\* name:value as the code writes it: the values of fonts, canvas and webgl
\* are the text of the promise safe() returned
EncodedSegment(c, p) ==
    <<p, ":">> \o (IF p \in SafeProbes THEN <<"[object Promise]">> ELSE ProbeOutput(c, p))

AmbiguousPair(c, d) ==
    /\ Joined(c) /\ Joined(d) /\ cfg[c] = cfg[d]
    /\ seen[c]["nav"] = "inj" /\ seen[c]["screen"] = "a"
    /\ seen[d]["nav"] = "a" /\ seen[d]["screen"] = "inj"
    /\ \A k \in SeenKeys \ {"nav", "screen"} : seen[c][k] = seen[d][k]

\* C18: two calls whose probe values differ, one nav value holding the record
\* separator followed by "screen:", join the same canonical string and return
\* the same fingerprint.
C18_EncodingAmbiguity ==
    \A c, d \in CallIds :
        AmbiguousPair(c, d) =>
            /\ ProbeOutput(c, "nav") # ProbeOutput(d, "nav")
            /\ ProbeOutput(c, "screen") # ProbeOutput(d, "screen")
            /\ raw[c] = raw[d]
            /\ (pc[c] = "resolved" /\ pc[d] = "resolved") => result[c] = result[d]

C18_Witness ==
    \E c, d \in CallIds :
        /\ AmbiguousPair(c, d)
        /\ pc[c] = "resolved" /\ pc[d] = "resolved"
        /\ parts[c] # parts[d] /\ raw[c] = raw[d]
        /\ result[c].delivered /\ result[c] = result[d]

\* the characters a fingerprint may hold, and the value of one of them
LowerHex == {"0", "1", "2", "3", "4", "5", "6", "7", "8", "9", "a", "b", "c", "d", "e", "f"}
HexValue(ch) == CHOOSE k \in 0 .. 15 : HexDigits[k + 1] = ch

\* C19: every byte of the digest is rendered as exactly two characters from
\* 0-9a-f that denote the byte, zero-padded, and the fingerprint is these
\* renderings in byte order: 64 characters from 0-9a-f.
C19_HexFormat ==
    /\ \A i \in DOMAIN hexOut :
            /\ Len(hexOut[i]) = 2
            /\ hexOut[i][1] \in LowerHex /\ hexOut[i][2] \in LowerHex
            /\ HexValue(hexOut[i][1]) * 16 + HexValue(hexOut[i][2]) = hexArr[i]
    /\ hexStr # << >> =>
            /\ Len(hexStr) = 64
            /\ \A j \in DOMAIN hexStr : hexStr[j] \in LowerHex
            /\ \A i \in DOMAIN hexArr : <<hexStr[2 * i - 1], hexStr[2 * i]>> = hexOut[i]

C19_Witness ==
    /\ hexStr # << >>
    /\ Len(hexArr) = 32
    /\ \E i, j \in DOMAIN hexArr :
            /\ hexArr[i] < 16 /\ hexOut[i][1] = "0"
            /\ hexArr[j] >= 160
            /\ hexArr[i] # hexArr[j]

\* the value the caller of safe() is to get: the value of fn, returned or
\* resolved to, when there is one; the fallback otherwise
SafeExpected(a) ==
    IF a.fn.kind = "value" THEN a.fn.v
    ELSE IF a.fn.kind = "promise" /\ a.fn.fate = "fulfill" /\ a.fn.settled.kind = "value"
         THEN a.fn.settled.v
         ELSE a.fallback

\* C20: safe(fn, fallback) returns a promise whatever fn does, the promise is
\* never rejected, and once fulfilled it holds fn's value when fn returned or
\* resolved to a value that is neither null nor undefined, and the fallback
\* when fn threw, its promise rejected, or the value was null or undefined.
C20_SafeNeverRejects ==
    \A c \in CallIds :
        safeArg[c] # NoCall =>
            /\ safeRet[c].t = "promise"
            /\ safeRet[c].state \in {"pending", "fulfilled"}
            /\ safeRet[c].state = "fulfilled" => safeRet[c].value = SafeExpected(safeArg[c])
            /\ safeArg[c].fn.kind # "promise" => safeRet[c].state = "fulfilled"

C20_Witness ==
    \E c, d \in CallIds :
        /\ safeArg[c] # NoCall /\ safeArg[d] # NoCall
        /\ safeArg[c].fn.kind = "promise" /\ safeArg[c].fn.fate = "reject"
        /\ safeArg[c].fallback = <<"fb">>
        /\ safeRet[c].state = "fulfilled" /\ safeRet[c].value = <<"fb">>
        /\ safeArg[d].fn = [kind |-> "promise", fate |-> "fulfill",
                            settled |-> [kind |-> "value", v |-> EmptyStr]]
        /\ safeArg[d].fallback = <<"fb">>
        /\ safeRet[d].state = "fulfilled" /\ safeRet[d].value = EmptyStr

\* the hosts in which the capability of a collector is absent
CapabilityAbsent(r) == r.name # "none" /\ r.host.kind \in {"absent", "noMethod"}

\* C21: run where its capability is absent, each of getWebGLFingerprint,
\* getAudioFingerprint, getMediaDeviceInfo, getPermissionStates and
\* getBatteryInfo returns the empty string (the asynchronous ones a promise
\* fulfilled with it), at once, and calls no method of that capability.
C21_CapabilityUnavailable ==
    CapabilityAbsent(coll) =>
        /\ coll.pc = "done"
        /\ coll.ret = IF coll.name = "webgl" THEN Str(EmptyStr) ELSE Fulfilled(EmptyStr)
        /\ \A k \in DOMAIN coll.log : coll.log[k].cap # coll.name

C21_Witness ==
    /\ CapabilityAbsent(coll)
    /\ coll.name = "battery"
    /\ coll.ret = Fulfilled(EmptyStr)
    /\ coll.log = << >>

\* the queries a run of getPermissionStates has issued so far, in order
PermQueries(r) == SelectSeq(r.log, LAMBDA e : e.method = "query")

\* the state a name is to be reported with, given what its query does
PermReported(o) == IF o \in {"throw", "reject"} THEN "unknown" ELSE o

\* the query for the j-th name is over at position k of the log: it threw
\* when it was made, or the promise it returned has settled
PermQueryOver(r, j, k) ==
    \/ r.host.answers[Perms[j]] = "throw"
    \/ \E m \in 1 .. k - 1 : r.log[m] = Called("permissions", "settled", Perms[j])

\* C22: with the permissions capability present, getPermissionStates queries
\* camera, microphone, geolocation, notifications in that order, each query
\* made only once the previous one is over; a query that throws or rejects
\* gives name:unknown for that name and the later names are still queried;
\* the result has one entry per name, in that order.
C22_PermissionQueries ==
    (coll.name = "permissions" /\ coll.host.kind = "present") =>
        /\ Len(PermQueries(coll)) <= Len(Perms)
        /\ \A j \in DOMAIN PermQueries(coll) : PermQueries(coll)[j].arg = Perms[j]
        /\ \A k \in DOMAIN coll.log : \A j \in 2 .. Len(Perms) :
                coll.log[k] = Called("permissions", "query", Perms[j])
                    => PermQueryOver(coll, j - 1, k)
        /\ \A j \in DOMAIN coll.out :
                coll.out[j] = <<Perms[j], ":", PermReported(coll.host.answers[Perms[j]])>>
        /\ coll.pc = "await" =>
                /\ coll.ret.state = "pending"
                /\ Len(coll.out) = Len(PermQueries(coll)) - 1
                /\ ~PermQueryOver(coll, Len(PermQueries(coll)), Len(coll.log) + 1)
        /\ coll.pc = "done" =>
                /\ Len(PermQueries(coll)) = Len(Perms)
                /\ Len(coll.out) = Len(Perms)
                /\ coll.ret = Fulfilled(Join(coll.out, <<",">>))

C22_Witness ==
    /\ coll.name = "permissions" /\ coll.host.kind = "present"
    /\ coll.pc = "done"
    /\ coll.host.answers["camera"] = "throw"
    /\ coll.host.answers["microphone"] = "reject"
    /\ coll.host.answers["geolocation"] = "granted"
    /\ coll.host.answers["notifications"] = "prompt"
    /\ coll.ret.value = <<"camera", ":", "unknown", ",", "microphone", ":", "unknown", ",",
                          "geolocation", ":", "granted", ",", "notifications", ":", "prompt">>

\* two enumerations hold the same number of devices of each kind
SameKindCounts(l1, l2) == \A k \in MediaDeviceKinds : KindCount(l1, k) = KindCount(l2, k)

\* C23: the string getMediaDeviceInfo returns for an enumeration is the one
\* it returns for every enumeration with the same number of devices of each
\* kind, whatever the order of the devices.
C23_KindCountsOnly ==
    (coll.name = "mediaDevices" /\ coll.host.kind = "devices" /\ coll.pc = "done") =>
        \A l \in DeviceLists :
            SameKindCounts(l, coll.host.list) => coll.ret.value = MediaDeviceString(l)

\* the value a probe of the compact variant is to contribute: empty when its
\* capability is absent or it throws
CompactContribution(o) == IF o \in {"absent", "throw"} THEN EmptyStr ELSE <<o>>

\* C24: in the compact variant, whatever canvas, WebGL and offline audio do,
\* generate() reaches the hash step, a failed probe contributes an empty
\* value, and the call resolves when the digest is available.
C24_CompactIsolation ==
    compact.pc # "idle" =>
        /\ compact.hashed
        /\ compact.rawID =
              Join(<<<<compact.host.nav>>, <<"a">>, <<"0">>,
                     CompactContribution(compact.host.canvas),
                     CompactContribution(compact.host.webgl),
                     IF compact.host.audio = "a" THEN <<"44100">> ELSE EmptyStr>>, <<"||">>)
        /\ compact.host.digest = "a" => compact.pc \in {"hashing", "resolved"}

\* the primary path of a capture failed: the rendering or the encoding threw
PrimaryFailed(r) == r.host.render = "throw" \/ r.host.encode = "throw"

\* the fallback of a capture was started and failed
FallbackFailed(r) ==
    /\ r.fallback # "none"
    /\ r.fallback = "rejected" \/ r.host.encodeAfter = "throw"

\* C25: the promise of captureViewport settles at most once; it resolves
\* with the image when rendering and encoding succeed; the fallback starts
\* only after the primary path failed; the promise rejects only when both
\* the primary path and the fallback failed; and on the load and on the
\* error path the object URL of the fallback is revoked exactly once, before
\* the fallback settles.
C25_FallbackChain ==
    capture.pc # "idle" =>
        /\ capture.settleCalls <= 1
        /\ (capture.pc = "done" /\ capture.host.render = "ok" /\ capture.host.encode = "ok")
                => capture.state = "fulfilled" /\ capture.value = <<"image">>
        /\ capture.fallback # "none" => PrimaryFailed(capture)
        /\ capture.state = "rejected" => PrimaryFailed(capture) /\ FallbackFailed(capture)
        /\ capture.revoked <= capture.urls
        /\ (capture.pc \in {"fallbackSettled", "stuck", "done"} /\ capture.urls = 1
            /\ capture.host.snapshot = "ok")
                => capture.revoked = 1 /\ capture.revokedAtSettle = 1

====
